---- MODULE Spec2Model ----
(***************************************************************************)
(* Company import service (src/index.js): the import route, the           *)
(* reconciliation loop importCompanies, the delete route, and the         *)
(* Company collection they work on.                                       *)
(***************************************************************************)
EXTENDS Integers, Sequences, FiniteSets, TLC

VARIABLES
  store,        \* the Company collection: documents in insertion order
  pc,           \* per request slot: where the import handler stands
  importMode,   \* req.body.importMode of the run in progress
  companies,    \* the parsed rows the run iterates over
  idx,          \* position of the for..of loop (1-based)
  inserted,     \* the run's counters
  updated,
  skipped,
  pending,      \* the store write the run has issued and is awaiting
  res,          \* the HTTP response of the slot's last import request
  delRes,       \* the HTTP response of the last delete request
  finds,        \* history: Company.findOne calls the run in progress has issued
  writes,       \* history: create / updateOne calls the run in progress has issued
  failed,       \* history: the store rejected a call of the run
  request,      \* history: what the slot's last import request carried
  resubmit,     \* history: the client sends this upload a second time right after
  rerun         \* history: this run is such a second submission

vars == <<store, pc, importMode, companies, idx, inserted, updated, skipped,
          pending, res, delRes, finds, writes, failed, request, resubmit, rerun>>

runVars == <<pc, importMode, companies, idx, inserted, updated, skipped,
             pending, res, finds, writes, failed, request, resubmit, rerun>>

-----------------------------------------------------------------------------
(* Bounds of the model *)

\* Rows per uploaded file.
MaxBatch == 2

\* Rows per uploaded file when two imports run at once.
MaxConcBatch == 1

Runs == {1, 2}

-----------------------------------------------------------------------------
(* Loosely typed scalar values: <<type, text>> *)

Absent == <<"undefined", "">>
Null == <<"null", "">>
Str(s) == <<"string", s>>
Num(s) == <<"number", s>>

\* Mutant of Truthy: only a missing value counts as falsy.
TruthyDefined(v) == v # <<"undefined", "">>

\* JavaScript truthiness of a scalar, as used by !company.email,
\* !existingCompany[key] and company[key].
Truthy(v) ==
  \/ v[1] = "string" /\ v[2] # ""
  \/ v[1] = "number" /\ v[2] # "0"

\* The schema types every path as String: numbers are stored as their text.
CastString(v) == IF v[1] = "number" THEN Str(v[2]) ELSE v

SchemaFields == {"name", "industry", "location", "email", "phone"}

\* Column names a row can carry: the schema's paths and one that is not in it.
Keys == SchemaFields \cup {"website"}

\* Own enumerable keys of a parsed row.
KeysOf(company) == {k \in Keys : company[k] # Absent}

\* existingCompany[key] on a document: undefined for a path outside the schema.
DocGet(doc, key) == IF key \in SchemaFields THEN doc[key] ELSE Absent

\* The five modes the switch of importCompanies has a case for.
Modes == {"create_new", "create_update_no_overwrite", "create_update_overwrite",
          "update_no_overwrite", "update_overwrite"}

-----------------------------------------------------------------------------
(* Uploaded files and the record parser *)

\* A cell of an uploaded sheet or delimited file, before parsing.
NoColumn == <<"nocolumn", "">>
EmptyCell == <<"empty", "">>
TextCell(s) == <<"text", s>>
NumberCell(s) == <<"numeric", s>>

RawRow(email, name, industry, phone, website) ==
  [email |-> email, name |-> name, industry |-> industry, location |-> NoColumn,
   phone |-> phone, website |-> website]

\* The rows uploads are made of.
RawPool ==
  { RawRow(TextCell("a@x.com"), EmptyCell, TextCell("Tech"), NoColumn, NoColumn),
    RawRow(TextCell("a@x.com"), TextCell("A"), TextCell("Retail"),
           NumberCell("5551234"), TextCell("w")),
    RawRow(EmptyCell, TextCell("B"), NoColumn, NoColumn, NoColumn),
    RawRow(NumberCell("0"), NoColumn, NoColumn, NoColumn, NoColumn) }

RawBatches(n) == UNION {[1..k -> RawPool] : k \in 0..n}

MimeTypes == {"text/csv", "application/vnd.ms-excel"}

\* req.file.mimetype.includes('excel') || req.file.mimetype.includes('spreadsheet')
IsExcel(mimetype) ==
  mimetype \in {"application/vnd.ms-excel",
                "application/vnd.openxmlformats-officedocument.spreadsheetml.sheet"}

\* req.file is undefined when the request carries no upload.
NoFile == [mimetype |-> "", rows |-> <<>>, malformed |-> FALSE]

\* Uploads of up to n rows, and one of each type that does not parse.
Files(n) ==
  [mimetype : MimeTypes, rows : RawBatches(n), malformed : {FALSE}]
    \cup [mimetype : MimeTypes, rows : {<<>>}, malformed : {TRUE}]

\* What a request can carry as its file.
Uploads == Files(MaxBatch) \cup {NoFile}

\* sheet_to_json leaves out empty cells and keeps numbers; csv-parser yields
\* every cell of a row as text.
ParseCell(isExcel, cell) ==
  CASE cell[1] = "nocolumn" -> Absent
    [] cell[1] = "empty" -> IF isExcel THEN Absent ELSE Str("")
    [] cell[1] = "text" -> Str(cell[2])
    [] OTHER -> IF isExcel THEN Num(cell[2]) ELSE Str(cell[2])

ParseRow(isExcel, row) == [k \in Keys |-> ParseCell(isExcel, row[k])]

\* processFile: resolves with the rows in file order, or rejects.
processFile(file, isExcel) ==
  IF file.malformed
    THEN [ok |-> FALSE, companies |-> <<>>]
    ELSE [ok |-> TRUE,
          companies |-> [i \in 1..Len(file.rows) |-> ParseRow(isExcel, file.rows[i])]]

\* req.body.importMode: a recognised mode, another string, the empty string,
\* or nothing at all.
NoMode == "<undefined>"
ModeInputs == Modes \cup {"merge_all", NoMode}

\* !importMode
ModeMissing(mode) == mode \in {NoMode, ""}

-----------------------------------------------------------------------------
(* The Company collection *)

\* The positions of the documents whose email is e.
Matches(s, e) == {i \in 1..Len(s) : s[i].email = e}

Min(S) == CHOOSE x \in S : \A y \in S : x <= y

\* Company.findOne({ email }): the position of the first match, 0 for null.
findOne(s, email) ==
  LET m == Matches(s, CastString(email)) IN IF m = {} THEN 0 ELSE Min(m)

\* Mutant of NewDoc: only the email of the row is kept.
NewDocEmailOnly(company) ==
  [f \in SchemaFields |-> IF f = "email" THEN CastString(company[f]) ELSE Absent]

\* The document Company.create(company) builds: schema paths only, cast to String.
NewDoc(company) == [f \in SchemaFields |-> CastString(company[f])]

\* Mutant of create: no unique index on email.
createNoIndex(s, company) ==
  LET doc == NewDoc(company) IN
  IF doc.email \in {Absent, Null, Str("")}
    THEN [ok |-> FALSE, store |-> s, message |-> "ValidationError"]
  ELSE [ok |-> TRUE, store |-> Append(s, doc), message |-> ""]

\* Mutant of create: a duplicate email is dropped without an error.
createIgnoreDuplicate(s, company) ==
  LET doc == NewDoc(company) IN
  IF doc.email \in {Absent, Null, Str("")}
    THEN [ok |-> FALSE, store |-> s, message |-> "ValidationError"]
  ELSE IF Matches(s, doc.email) # {}
    THEN [ok |-> TRUE, store |-> s, message |-> ""]
  ELSE [ok |-> TRUE, store |-> Append(s, doc), message |-> ""]

\* Company.create(company) at the store: rejects a document without the required
\* email and one whose email the unique index already holds.
create(s, company) ==
  LET doc == NewDoc(company) IN
  IF doc.email \in {Absent, Null, Str("")}
    THEN [ok |-> FALSE, store |-> s, message |-> "ValidationError"]
  ELSE IF Matches(s, doc.email) # {}
    THEN [ok |-> FALSE, store |-> s, message |-> "E11000 duplicate key"]
  ELSE [ok |-> TRUE, store |-> Append(s, doc), message |-> ""]

\* Mutant of updateOne: falsy values of the $set are left out.
updateOneTruthy(s, email, set) ==
  LET i == findOne(s, email) IN
  IF i = 0 THEN s
  ELSE [s EXCEPT ![i] = [f \in SchemaFields |->
          IF Truthy(set[f]) THEN CastString(set[f]) ELSE s[i][f]]]

\* Mutant of updateOne: with no match the document is inserted (upsert).
updateOneUpsert(s, email, set) ==
  LET i == findOne(s, email) IN
  IF i = 0
    THEN Append(s, [f \in SchemaFields |->
           IF f = "email" THEN CastString(email)
           ELSE IF set[f] # Absent THEN CastString(set[f]) ELSE Absent])
  ELSE [s EXCEPT ![i] = [f \in SchemaFields |->
          IF set[f] # Absent THEN CastString(set[f]) ELSE s[i][f]]]

\* Company.updateOne({ email }, { $set: set }): set is a row-shaped map, Absent
\* for the keys it does not carry. Paths outside the schema are dropped, values
\* are cast, the first match is changed; no match changes nothing.
updateOne(s, email, set) ==
  LET i == findOne(s, email) IN
  IF i = 0 THEN s
  ELSE [s EXCEPT ![i] = [f \in SchemaFields |->
          IF set[f] # Absent THEN CastString(set[f]) ELSE s[i][f]]]

\* Mutant of deleteOne: the filter is ignored, the first document goes.
deleteOneAny(s, email) ==
  IF Len(s) = 0 THEN [deletedCount |-> 0, store |-> s]
  ELSE [deletedCount |-> 1, store |-> Tail(s)]

\* Company.deleteOne({ email }): removes the first match.
deleteOne(s, email) ==
  LET i == findOne(s, Str(email)) IN
  IF i = 0 THEN [deletedCount |-> 0, store |-> s]
  ELSE [deletedCount |-> 1,
        store |-> [j \in 1..(Len(s) - 1) |-> IF j < i THEN s[j] ELSE s[j + 1]]]

\* Mutant of MergeFill: the existing value is not looked at.
MergeFillAll(existingCompany, company) ==
  [key \in Keys |-> IF Truthy(company[key]) THEN company[key] ELSE Absent]

\* The merge-fill change set of lines 99-104 and 126-131.
MergeFill(existingCompany, company) ==
  [key \in Keys |->
     IF key \in KeysOf(company)
        /\ ~Truthy(DocGet(existingCompany, key)) /\ Truthy(company[key])
       THEN company[key] ELSE Absent]

\* Object.keys(update).length > 0
NonEmpty(set) == \E key \in Keys : set[key] # Absent

NoSet == [key \in Keys |-> Absent]

\* Mutant of Decide: create_new has lost its break and runs on into the
\* overwrite of an existing match.
DecideFallThrough(mode, s, i, company) ==
  LET fill == MergeFill(s[i], company) IN
  CASE mode \in {"create_new", "create_update_overwrite"} ->
         IF i = 0 THEN [op |-> "create", set |-> NoSet]
         ELSE [op |-> "updateOne", set |-> company]
    [] mode = "create_update_no_overwrite" ->
         IF i = 0 THEN [op |-> "create", set |-> NoSet]
         ELSE IF NonEmpty(fill) THEN [op |-> "updateOne", set |-> fill]
         ELSE [op |-> "skip", set |-> NoSet]
    [] mode = "update_no_overwrite" ->
         IF i # 0
           THEN IF NonEmpty(fill) THEN [op |-> "updateOne", set |-> fill]
                ELSE [op |-> "skip", set |-> NoSet]
           ELSE [op |-> "skip", set |-> NoSet]
    [] mode = "update_overwrite" ->
         IF i # 0 THEN [op |-> "updateOne", set |-> company]
         ELSE [op |-> "skip", set |-> NoSet]
    [] OTHER -> [op |-> "none", set |-> NoSet]

\* Mutant of Decide: update_overwrite creates the record it does not find.
DecideUpdateInserts(mode, s, i, company) ==
  LET fill == MergeFill(s[i], company) IN
  CASE mode = "create_new" ->
         IF i = 0 THEN [op |-> "create", set |-> NoSet]
         ELSE [op |-> "skip", set |-> NoSet]
    [] mode = "create_update_no_overwrite" ->
         IF i = 0 THEN [op |-> "create", set |-> NoSet]
         ELSE IF NonEmpty(fill) THEN [op |-> "updateOne", set |-> fill]
         ELSE [op |-> "skip", set |-> NoSet]
    [] mode = "create_update_overwrite" ->
         IF i = 0 THEN [op |-> "create", set |-> NoSet]
         ELSE [op |-> "updateOne", set |-> company]
    [] mode = "update_no_overwrite" ->
         IF i # 0
           THEN IF NonEmpty(fill) THEN [op |-> "updateOne", set |-> fill]
                ELSE [op |-> "skip", set |-> NoSet]
           ELSE [op |-> "skip", set |-> NoSet]
    [] mode = "update_overwrite" ->
         IF i # 0 THEN [op |-> "updateOne", set |-> company]
         ELSE [op |-> "create", set |-> NoSet]
    [] OTHER -> [op |-> "none", set |-> NoSet]

\* What one pass of the switch does with the lookup result i (0: no match):
\* issue a create, issue an updateOne with a $set, count a skip, or, for a
\* mode no case names, nothing at all.
Decide(mode, s, i, company) ==
  LET fill == MergeFill(s[i], company) IN
  CASE mode = "create_new" ->
         IF i = 0 THEN [op |-> "create", set |-> NoSet]
         ELSE [op |-> "skip", set |-> NoSet]
    [] mode = "create_update_no_overwrite" ->
         IF i = 0 THEN [op |-> "create", set |-> NoSet]
         ELSE IF NonEmpty(fill) THEN [op |-> "updateOne", set |-> fill]
         ELSE [op |-> "skip", set |-> NoSet]
    [] mode = "create_update_overwrite" ->
         IF i = 0 THEN [op |-> "create", set |-> NoSet]
         ELSE [op |-> "updateOne", set |-> company]
    [] mode = "update_no_overwrite" ->
         IF i # 0
           THEN IF NonEmpty(fill) THEN [op |-> "updateOne", set |-> fill]
                ELSE [op |-> "skip", set |-> NoSet]
           ELSE [op |-> "skip", set |-> NoSet]
    [] mode = "update_overwrite" ->
         IF i # 0 THEN [op |-> "updateOne", set |-> company]
         ELSE [op |-> "skip", set |-> NoSet]
    [] OTHER -> [op |-> "none", set |-> NoSet]


-----------------------------------------------------------------------------
(* Responses *)

NoResponse == [status |-> 0, message |-> "", counts |-> <<>>]
Failure(status, message) == [status |-> status, message |-> message, counts |-> <<>>]
Summary(i, u, k) == [status |-> 200, message |-> "success", counts |-> <<i, u, k>>]

NoDelete == [email |-> "", status |-> 0]

Running == {"loop", "create", "updateOne"}

NoPending == [op |-> "none", set |-> NoSet]

-----------------------------------------------------------------------------
(* The import route: POST /api/companies/import *)

\* What a request carried, by the cases the handler tells apart.
FileClass(file) ==
  IF file = NoFile THEN "absent" ELSE IF file.malformed THEN "malformed" ELSE "ok"

ModeClass(mode) ==
  IF ModeMissing(mode) THEN "absent" ELSE IF mode \in Modes THEN "known" ELSE "unknown"

NoRequest == [file |-> "none", mode |-> "none"]

\* The handler has answered: the rows, the mode and the awaited call are gone
\* (the rows and the mode stay on record only for an upload the client is
\* about to send again). Counters and history stay as the run left them.
EndRun(r, response, keep) ==
  /\ res' = [res EXCEPT ![r] = response]
  /\ pc' = [pc EXCEPT ![r] = "responded"]
  /\ companies' = [companies EXCEPT ![r] = IF keep THEN @ ELSE <<>>]
  /\ importMode' = [importMode EXCEPT ![r] = IF keep THEN @ ELSE NoMode]
  /\ resubmit' = [resubmit EXCEPT ![r] = keep]
  /\ pending' = [pending EXCEPT ![r] = NoPending]

\* let inserted = 0, updated = 0, skipped = 0, and a fresh history.
ResetCounters(r) ==
  /\ idx' = [idx EXCEPT ![r] = 1]
  /\ inserted' = [inserted EXCEPT ![r] = 0]
  /\ updated' = [updated EXCEPT ![r] = 0]
  /\ skipped' = [skipped EXCEPT ![r] = 0]
  /\ finds' = [finds EXCEPT ![r] = 0]
  /\ writes' = [writes EXCEPT ![r] = 0]
  /\ failed' = [failed EXCEPT ![r] = FALSE]

\* importCompanies starts on rows under mode, the loop at the first row.
StartRun(r, rows, mode) ==
  /\ res' = [res EXCEPT ![r] = NoResponse]
  /\ pc' = [pc EXCEPT ![r] = "loop"]
  /\ companies' = [companies EXCEPT ![r] = rows]
  /\ importMode' = [importMode EXCEPT ![r] = mode]
  /\ pending' = [pending EXCEPT ![r] = NoPending]

\* Mutant of ImportRequest: the check of the mode is missing.
ImportRequestNoModeCheck(r, file, mode, again) ==
  /\ pc[r] = "idle"
  /\ LET parsed == processFile(file, IsExcel(file.mimetype)) IN
     IF file = NoFile
       THEN EndRun(r, Failure(400, "No file uploaded"), FALSE)
     ELSE IF ~parsed.ok
       THEN EndRun(r, Failure(500, "ParseError"), FALSE)
     ELSE /\ StartRun(r, parsed.companies, mode)
          /\ resubmit' = [resubmit EXCEPT ![r] = again]
  /\ ResetCounters(r)
  /\ request' = [request EXCEPT ![r] = [file |-> FileClass(file), mode |-> ModeClass(mode)]]
  /\ rerun' = [rerun EXCEPT ![r] = FALSE]
  /\ UNCHANGED <<store, delRes>>

\* The handler up to the first store call: the two checks, the parse, and
\* the start of importCompanies.
ImportRequest(r, file, mode, again) ==
  /\ pc[r] = "idle"
  /\ LET parsed == processFile(file, IsExcel(file.mimetype)) IN
     IF file = NoFile
       THEN EndRun(r, Failure(400, "No file uploaded"), FALSE)
     ELSE IF ModeMissing(mode)
       THEN EndRun(r, Failure(400, "Import mode is required"), FALSE)
     ELSE IF ~parsed.ok
       THEN EndRun(r, Failure(500, "ParseError"), FALSE)
     ELSE /\ StartRun(r, parsed.companies, mode)
          /\ resubmit' = [resubmit EXCEPT ![r] = again]
  /\ ResetCounters(r)
  /\ request' = [request EXCEPT ![r] = [file |-> FileClass(file), mode |-> ModeClass(mode)]]
  /\ rerun' = [rerun EXCEPT ![r] = FALSE]
  /\ UNCHANGED <<store, delRes>>

\* The exchange is over: the slot is free for the next request.
Close(r) ==
  /\ pc[r] = "responded"
  /\ ~resubmit[r]
  /\ pc' = [pc EXCEPT ![r] = "idle"]
  /\ res' = [res EXCEPT ![r] = NoResponse]
  /\ ResetCounters(r)
  /\ request' = [request EXCEPT ![r] = NoRequest]
  /\ rerun' = [rerun EXCEPT ![r] = FALSE]
  /\ UNCHANGED <<store, delRes, companies, importMode, pending, resubmit>>

\* The same upload under the same mode, sent again once the first run has
\* answered with its summary.
Resubmit(r) ==
  /\ pc[r] = "responded"
  /\ resubmit[r]
  /\ StartRun(r, companies[r], importMode[r])
  /\ ResetCounters(r)
  /\ resubmit' = [resubmit EXCEPT ![r] = FALSE]
  /\ rerun' = [rerun EXCEPT ![r] = TRUE]
  /\ UNCHANGED <<store, delRes, request>>

AtRecord(r) == pc[r] = "loop" /\ idx[r] <= Len(companies[r])

\* if (!company.email) { skipped++; continue; }
SkipNoEmail(r) ==
  /\ AtRecord(r)
  /\ ~Truthy(companies[r][idx[r]].email)
  /\ skipped' = [skipped EXCEPT ![r] = @ + 1]
  /\ idx' = [idx EXCEPT ![r] = @ + 1]
  /\ UNCHANGED <<store, pc, importMode, companies, inserted, updated, pending,
                 res, delRes, finds, writes, failed, request, resubmit, rerun>>

\* Mutant of FindOne: on a miss under a create mode the insert is applied in
\* the same step as the lookup (one atomic find-or-create).
FindOneAtomic(r) ==
  /\ AtRecord(r)
  /\ Truthy(companies[r][idx[r]].email)
  /\ LET company == companies[r][idx[r]]
         i == findOne(store, company.email)
         d == Decide(importMode[r], store, i, company)
     IN
     /\ finds' = [finds EXCEPT ![r] = @ + 1]
     /\ IF d.op = "create"
          THEN /\ store' = create(store, company).store
               /\ inserted' = [inserted EXCEPT ![r] = @ + 1]
               /\ writes' = [writes EXCEPT ![r] = @ + 1]
               /\ idx' = [idx EXCEPT ![r] = @ + 1]
               /\ UNCHANGED <<pending, pc, skipped>>
          ELSE /\ pending' = [pending EXCEPT ![r] = IF d.op = "updateOne"
                                                     THEN d ELSE NoPending]
               /\ pc' = [pc EXCEPT ![r] = IF d.op = "updateOne" THEN d.op ELSE "loop"]
               /\ skipped' = [skipped EXCEPT ![r] = IF d.op = "skip" THEN @ + 1 ELSE @]
               /\ idx' = [idx EXCEPT ![r] = IF d.op \in {"skip", "none"} THEN @ + 1 ELSE @]
               /\ UNCHANGED <<store, inserted, writes>>
  /\ UNCHANGED <<importMode, companies, updated, res, delRes, failed, request,
                 resubmit, rerun>>

\* The lookup completes and the switch runs up to its next store call.
FindOne(r) ==
  /\ AtRecord(r)
  /\ Truthy(companies[r][idx[r]].email)
  /\ LET company == companies[r][idx[r]]
         i == findOne(store, company.email)
         d == Decide(importMode[r], store, i, company)
     IN
     /\ finds' = [finds EXCEPT ![r] = @ + 1]
     /\ pending' = [pending EXCEPT ![r] = IF d.op \in {"create", "updateOne"}
                                            THEN d ELSE NoPending]
     /\ pc' = [pc EXCEPT ![r] = IF d.op \in {"create", "updateOne"} THEN d.op ELSE "loop"]
     /\ skipped' = [skipped EXCEPT ![r] = IF d.op = "skip" THEN @ + 1 ELSE @]
     /\ idx' = [idx EXCEPT ![r] = IF d.op \in {"skip", "none"} THEN @ + 1 ELSE @]
  /\ UNCHANGED <<store, importMode, companies, inserted, updated, res, delRes,
                 writes, failed, request, resubmit, rerun>>

\* Mutant of Abort: the rejection is caught inside the loop, which goes on.
AbortSwallow(r, message) ==
  /\ pc' = [pc EXCEPT ![r] = "loop"]
  /\ pending' = [pending EXCEPT ![r] = NoPending]
  /\ UNCHANGED <<res, companies, importMode, resubmit>>

\* A rejected store call reaches the catch of the route: status 500 and the
\* error's message, no summary, and importCompanies is not resumed.
Abort(r, message) == EndRun(r, Failure(500, message), FALSE)

\* The lookup is rejected by the store.
FindOneFails(r) ==
  /\ AtRecord(r)
  /\ Truthy(companies[r][idx[r]].email)
  /\ finds' = [finds EXCEPT ![r] = @ + 1]
  /\ failed' = [failed EXCEPT ![r] = TRUE]
  /\ Abort(r, "StoreError")
  /\ UNCHANGED <<store, idx, inserted, updated, skipped, delRes, writes, request, rerun>>

\* Mutant of Create: the create is not awaited; the loop counts it and goes
\* on before the store has the document.
CreateNoAwait(r) ==
  /\ pc[r] = "create"
  /\ inserted' = [inserted EXCEPT ![r] = @ + 1]
  /\ idx' = [idx EXCEPT ![r] = @ + 1]
  /\ pc' = [pc EXCEPT ![r] = "loop"]
  /\ pending' = [pending EXCEPT ![r] = NoPending]
  /\ writes' = [writes EXCEPT ![r] = @ + 1]
  /\ UNCHANGED <<store, importMode, companies, res, resubmit, failed, updated,
                 skipped, finds, delRes, request, rerun>>

\* await Company.create(company); inserted++
Create(r) ==
  /\ pc[r] = "create"
  /\ LET result == create(store, companies[r][idx[r]]) IN
     IF result.ok
       THEN /\ store' = result.store
            /\ inserted' = [inserted EXCEPT ![r] = @ + 1]
            /\ idx' = [idx EXCEPT ![r] = @ + 1]
            /\ pc' = [pc EXCEPT ![r] = "loop"]
            /\ pending' = [pending EXCEPT ![r] = NoPending]
            /\ UNCHANGED <<importMode, companies, res, resubmit, failed>>
       ELSE /\ Abort(r, result.message)
            /\ failed' = [failed EXCEPT ![r] = TRUE]
            /\ UNCHANGED <<store, inserted, idx>>
  /\ writes' = [writes EXCEPT ![r] = @ + 1]
  /\ UNCHANGED <<updated, skipped, finds, delRes, request, rerun>>

\* await Company.updateOne({ email: company.email }, { $set: ... }); updated++
UpdateOne(r) ==
  /\ pc[r] = "updateOne"
  /\ store' = updateOne(store, companies[r][idx[r]].email, pending[r].set)
  /\ updated' = [updated EXCEPT ![r] = @ + 1]
  /\ idx' = [idx EXCEPT ![r] = @ + 1]
  /\ pc' = [pc EXCEPT ![r] = "loop"]
  /\ pending' = [pending EXCEPT ![r] = NoPending]
  /\ writes' = [writes EXCEPT ![r] = @ + 1]
  /\ UNCHANGED <<importMode, companies, inserted, skipped, res, delRes, finds,
                 failed, request, resubmit, rerun>>

\* The pending create or updateOne is rejected by the store.
WriteFails(r) ==
  /\ pc[r] \in {"create", "updateOne"}
  /\ writes' = [writes EXCEPT ![r] = @ + 1]
  /\ failed' = [failed EXCEPT ![r] = TRUE]
  /\ Abort(r, "StoreError")
  /\ UNCHANGED <<store, idx, inserted, updated, skipped, delRes, finds, request, rerun>>

\* return { inserted, updated, skipped } and the success response.
Return(r) ==
  /\ pc[r] = "loop"
  /\ idx[r] > Len(companies[r])
  /\ EndRun(r, Summary(inserted[r], updated[r], skipped[r]), resubmit[r])
  /\ UNCHANGED <<store, idx, inserted, updated, skipped, delRes, finds, writes,
                 failed, request, rerun>>

-----------------------------------------------------------------------------
(* The delete route: DELETE /api/companies/:email *)

DeleteEmails == {"a@x.com"}

DeleteCompany(email) ==
  /\ LET result == deleteOne(store, email) IN
     /\ store' = result.store
     /\ delRes' = [email |-> email,
                   status |-> IF result.deletedCount = 0 THEN 404 ELSE 200]
  /\ UNCHANGED runVars

\* deleteOne is rejected by the store.
DeleteFails(email) ==
  /\ delRes' = [email |-> email, status |-> 500]
  /\ UNCHANGED <<store, runVars>>

-----------------------------------------------------------------------------
(* Specifications *)

InitRun ==
  /\ store = <<>>
  /\ importMode = [r \in Runs |-> NoMode]
  /\ companies = [r \in Runs |-> <<>>]
  /\ idx = [r \in Runs |-> 1]
  /\ inserted = [r \in Runs |-> 0]
  /\ updated = [r \in Runs |-> 0]
  /\ skipped = [r \in Runs |-> 0]
  /\ pending = [r \in Runs |-> NoPending]
  /\ res = [r \in Runs |-> NoResponse]
  /\ delRes = NoDelete
  /\ finds = [r \in Runs |-> 0]
  /\ writes = [r \in Runs |-> 0]
  /\ failed = [r \in Runs |-> FALSE]
  /\ request = [r \in Runs |-> NoRequest]
  /\ resubmit = [r \in Runs |-> FALSE]
  /\ rerun = [r \in Runs |-> FALSE]

\* One import request at a time (the second slot stays off).
Init ==
  /\ InitRun
  /\ pc = [r \in Runs |-> IF r = 1 THEN "idle" ELSE "off"]

RunStep(r) ==
  \/ SkipNoEmail(r)
  \/ FindOne(r)
  \/ FindOneFails(r)
  \/ Create(r)
  \/ UpdateOne(r)
  \/ WriteFails(r)
  \/ Return(r)
  \/ Close(r)

\* Imports one after another, delete requests at any moment.
Next ==
  \/ \E r \in Runs :
       /\ pc[r] = "idle"
       /\ \E file \in Uploads, mode \in ModeInputs : ImportRequest(r, file, mode, FALSE)
  \/ \E r \in Runs : RunStep(r)
  \/ \E email \in DeleteEmails : DeleteCompany(email)
  \/ \E email \in DeleteEmails : DeleteFails(email)

Spec == Init /\ [][Next]_vars

\* Imports one after another, each upload possibly sent twice in a row; no
\* other request.
NextTwice ==
  \/ \E r \in Runs :
       /\ pc[r] = "idle"
       /\ \E file \in Uploads, mode \in ModeInputs, again \in BOOLEAN :
            ImportRequest(r, file, mode, again)
  \/ \E r \in Runs : Resubmit(r)
  \/ \E r \in Runs : RunStep(r)

SpecTwice == Init /\ [][NextTwice]_vars

\* Two import requests in flight at once, and delete requests.
InitConc ==
  /\ InitRun
  /\ pc = [r \in Runs |-> "idle"]

\* The uploads of the concurrent runs: delimited text that parses, every row
\* for the one email the runs contend for, or a single row without an email.
ConcFiles ==
  {f \in Files(MaxConcBatch) :
     /\ ~IsExcel(f.mimetype)
     /\ ~f.malformed
     /\ \/ \A i \in 1..Len(f.rows) : f.rows[i].email = TextCell("a@x.com")
        \/ Len(f.rows) = 1 /\ f.rows[1].email = EmptyCell}

NextConc ==
  \/ \E r \in Runs :
       /\ pc[r] = "idle"
       /\ \E file \in ConcFiles, mode \in Modes : ImportRequest(r, file, mode, FALSE)
  \/ \E r \in Runs : RunStep(r)
  \/ DeleteCompany("a@x.com")

SpecConc == InitConc /\ [][NextConc]_vars

-----------------------------------------------------------------------------
(* Properties *)

\* The step is one of run r's own (every step of a run moves pc or idx).
RunMoved(r) == pc'[r] # pc[r] \/ idx'[r] # idx[r]

NoOverwriteModes == {"create_update_no_overwrite", "update_no_overwrite"}
OverwriteModes == {"create_update_overwrite", "update_overwrite"}

\* s with the document at position i taken out.
Without(s, i) == [j \in 1..(Len(s) - 1) |-> IF j < i THEN s[j] ELSE s[j + 1]]

\* C1: counter conservation. Every run that returns a summary has counted
\* each input record once: inserted + updated + skipped is the number of
\* rows, whatever the mode passed to importCompanies.
C1_CounterConservation ==
  [][\A r \in Runs :
       (pc[r] = "loop" /\ res'[r].status = 200) =>
         res'[r].counts[1] + res'[r].counts[2] + res'[r].counts[3]
           = Len(companies[r])]_vars

\* C2: identity invariant. No two persisted documents share a non-empty
\* email, after any import runs and deletes.
C2_IdentityInvariant ==
  \A i, j \in 1..Len(store) :
    (i # j /\ Truthy(store[i].email)) => store[i].email # store[j].email

\* Both runs inserted a@x.com, a delete in between, and one document is there.
C2_Witness ==
  /\ Len(store) = 1
  /\ store[1].email = Str("a@x.com")
  /\ delRes = [email |-> "a@x.com", status |-> 200]
  /\ res[1] = Summary(1, 0, 0)
  /\ res[2] = Summary(1, 0, 0)

\* C3: idempotence of create_new. The second of two successive runs of one
\* batch under create_new issues no store write, leaves the store as it is
\* and, when it returns, reports inserted = 0, updated = 0 and every record
\* skipped.
C3_CreateNewIdempotent ==
  [][\A r \in Runs :
       (rerun[r] /\ importMode[r] = "create_new" /\ pc[r] \in Running) =>
         /\ store' = store
         /\ pc'[r] \notin {"create", "updateOne"}
         /\ inserted'[r] = 0
         /\ (res'[r].status = 200 =>
               res'[r].counts = <<0, 0, Len(companies[r])>>)]_vars

\* The second run has gone through two records with an email, both found.
C3_Witness ==
  /\ rerun[1]
  /\ importMode[1] = "create_new"
  /\ pc[1] = "loop"
  /\ idx[1] = 3
  /\ finds[1] = 2
  /\ skipped[1] = 2
  /\ Len(store) = 2

\* C4: merge-fill monotonicity. A step of a run under a *_no_overwrite mode
\* leaves every truthy field of every persisted document as it was.
C4_MergeFillMonotone ==
  [][\A r \in Runs :
       (importMode[r] \in NoOverwriteModes /\ pc[r] \in Running /\ RunMoved(r)) =>
         /\ Len(store') >= Len(store)
         /\ \A i \in 1..Len(store), f \in SchemaFields :
              Truthy(store[i][f]) => store'[i][f] = store[i][f]]_vars

\* Scenario B: the empty name was filled, the industry kept against "Retail".
C4_Witness ==
  /\ importMode[1] = "create_update_no_overwrite"
  /\ pc[1] = "loop"
  /\ idx[1] = 2
  /\ updated[1] = 1
  /\ companies[1][1].industry = Str("Retail")
  /\ Len(store) = 1
  /\ store[1].name = Str("A")
  /\ store[1].industry = Str("Tech")

\* C5 as claimed: after a full overwrite of a document that is there, every
\* field the incoming record provides equals the stored value, and the
\* outcome is Updated.
C5_FullOverwriteAllFields ==
  [][\A r \in Runs :
       (/\ importMode[r] \in OverwriteModes
        /\ pc[r] = "updateOne" /\ pc'[r] = "loop"
        /\ findOne(store, companies[r][idx[r]].email) # 0) =>
         LET company == companies[r][idx[r]]
             j == findOne(store', company.email)
         IN /\ updated'[r] = updated[r] + 1
            /\ j # 0
            /\ \A key \in KeysOf(company) : DocGet(store'[j], key) = company[key]]_vars

\* C5 as amended: after a full overwrite of a document that is there, every
\* schema field the incoming record provides, falsy values included, is
\* stored as the incoming value converted to a string, and the outcome is
\* Updated.
C5_FullOverwriteSchemaFields ==
  [][\A r \in Runs :
       (/\ importMode[r] \in OverwriteModes
        /\ pc[r] = "updateOne" /\ pc'[r] = "loop"
        /\ findOne(store, companies[r][idx[r]].email) # 0) =>
         LET company == companies[r][idx[r]]
             j == findOne(store', company.email)
         IN /\ updated'[r] = updated[r] + 1
            /\ j # 0
            /\ \A f \in SchemaFields \cap KeysOf(company) :
                 store'[j][f] = CastString(company[f])]_vars

\* A document that had a phone (and so the name "A") got the empty name.
C5_Witness ==
  /\ importMode[1] = "update_overwrite"
  /\ pc[1] = "loop"
  /\ idx[1] = 2
  /\ updated[1] = 1
  /\ companies[1][1].name = Str("")
  /\ Len(store) = 1
  /\ store[1].name = Str("")
  /\ store[1].phone = Str("5551234")

\* C6: a record whose email is absent, null, the empty string or zero is
\* counted as skipped under every mode, with no lookup, no write and no
\* change of the store.
C6_NoEmailSkipped ==
  [][\A r \in Runs :
       (/\ AtRecord(r)
        /\ companies[r][idx[r]].email \in {Absent, Null, Str(""), Num("0")}
        /\ RunMoved(r)) =>
         /\ skipped'[r] = skipped[r] + 1
         /\ inserted'[r] = inserted[r]
         /\ updated'[r] = updated[r]
         /\ idx'[r] = idx[r] + 1
         /\ pc'[r] = "loop"
         /\ finds'[r] = finds[r]
         /\ writes'[r] = writes[r]
         /\ store' = store]_vars

\* A sheet with an empty email cell and a zero email cell, both skipped.
C6_Witness ==
  /\ importMode[1] = "create_update_overwrite"
  /\ pc[1] = "loop"
  /\ idx[1] = 3
  /\ companies[1][1].email = Absent
  /\ companies[1][2].email = Num("0")
  /\ skipped[1] = 2
  /\ finds[1] = 0
  /\ Len(store) = 1

\* C7: an import request without a file, without a mode or with a mode
\* that is not one of the five never gets a summary.
C7_BadRequestFails ==
  \A r \in Runs :
    (request[r].file = "absent" \/ request[r].mode \in {"absent", "unknown"}) =>
      res[r].status # 200

\* C8: a delete request for e that the store answers removes one document
\* with email e, leaves the others as they are and reports success when
\* there is one; reports not-found and leaves the store alone when not.
C8_DeleteByIdentity ==
  [][(/\ runVars' = runVars
      /\ delRes' # delRes \/ store' # store
      /\ delRes'.status # 500) =>
       LET m == Matches(store, Str(delRes'.email)) IN
       IF m # {}
         THEN /\ delRes'.status = 200
              /\ \E i \in m : store' = Without(store, i)
         ELSE /\ delRes'.status = 404
              /\ store' = store]_vars

\* a@x.com was deleted and the other document is still there.
C8_Witness ==
  /\ delRes = [email |-> "a@x.com", status |-> 200]
  /\ Len(store) = 1
  /\ store[1].email = Str("0")

\* C9: when the store rejects a call of a run, the run ends there with a
\* failure and no counters, the store keeps what the run had committed, and
\* the run issues no further call.
C9_AbortOnStoreFailure ==
  [][\A r \in Runs :
       /\ (failed'[r] /\ ~failed[r]) =>
            /\ store' = store
            /\ pc'[r] = "responded"
            /\ res'[r].status = 500
            /\ res'[r].counts = <<>>
            /\ idx'[r] = idx[r]
       /\ (failed[r] /\ failed'[r]) =>
            /\ finds'[r] = finds[r]
            /\ writes'[r] = writes[r]
            /\ pc'[r] = "responded"
            /\ (store' # store => runVars' = runVars)]_vars

\* The first record was inserted, the create of the second was rejected.
C9_Witness ==
  /\ failed[1]
  /\ res[1] = Failure(500, "StoreError")
  /\ idx[1] = 2
  /\ inserted[1] = 1
  /\ writes[1] = 2
  /\ Len(store) = 1
  /\ store[1].email = Str("0")

\* C10: a request that fails validation (no file, no mode) or parsing is
\* answered with an error in the one step that takes it: no lookup, no
\* write, the store unchanged, and importCompanies never started.
C10_RejectedRequestTouchesNoStore ==
  [][\A r \in Runs :
       (request'[r].file \in {"absent", "malformed"} \/ request'[r].mode = "absent") =>
         /\ pc'[r] \notin Running
         /\ finds'[r] = 0
         /\ writes'[r] = 0
         /\ res'[r].status \in {400, 500}
         /\ (runVars' # runVars => store' = store)]_vars

\* A file that does not parse was refused while the store held documents.
C10_Witness ==
  /\ request[1] = [file |-> "malformed", mode |-> "known"]
  /\ res[1] = Failure(500, "ParseError")
  /\ Len(store) = 2

UpdateModes == {"update_no_overwrite", "update_overwrite"}
CreateModes == {"create_new", "create_update_no_overwrite", "create_update_overwrite"}

\* The email values the collection holds.
Emails(s) == {s[i].email : i \in 1..Len(s)}

\* C11: under update_no_overwrite and update_overwrite no step of a run
\* inserts: a record whose email has no match is skipped without a write,
\* inserted stays 0, and the number of documents and the set of persisted
\* emails are the same after each step of the run as before it.
C11_UpdateModesNeverInsert ==
  [][\A r \in Runs :
       (importMode[r] \in UpdateModes /\ pc[r] \in Running /\ RunMoved(r)) =>
         /\ inserted'[r] = 0
         /\ pc'[r] # "create"
         /\ Len(store') = Len(store)
         /\ Emails(store') = Emails(store)
         /\ (/\ AtRecord(r)
             /\ Truthy(companies[r][idx[r]].email)
             /\ findOne(store, companies[r][idx[r]].email) = 0
             /\ ~failed'[r]) =>
              /\ skipped'[r] = skipped[r] + 1
              /\ idx'[r] = idx[r] + 1
              /\ pc'[r] = "loop"
              /\ writes'[r] = writes[r]]_vars

\* A record for an email the store does not hold was skipped under
\* update_overwrite, next to the document of another email.
C11_Witness ==
  /\ importMode[1] = "update_overwrite"
  /\ pc[1] = "loop"
  /\ idx[1] = 2
  /\ finds[1] = 1
  /\ skipped[1] = 1
  /\ companies[1][1].email = Str("0")
  /\ Len(store) = 1
  /\ store[1].email = Str("a@x.com")

\* C12 as claimed: under the three create modes a record with a truthy email
\* and no match is inserted with every field the incoming record carries and
\* counted as inserted; a run that returns its summary, no delete in between,
\* leaves every truthy email of the batch in the store.
C12_CreateModesInsertAllFields ==
  [][\A r \in Runs :
       (importMode[r] \in CreateModes /\ pc[r] \in Running /\ RunMoved(r)) =>
         /\ (/\ AtRecord(r)
             /\ Truthy(companies[r][idx[r]].email)
             /\ findOne(store, companies[r][idx[r]].email) = 0
             /\ ~failed'[r]) => pc'[r] = "create"
         /\ (pc[r] = "create" /\ ~failed'[r]) =>
              /\ Len(store') = Len(store) + 1
              /\ SubSeq(store', 1, Len(store)) = store
              /\ inserted'[r] = inserted[r] + 1
              /\ \A key \in KeysOf(companies[r][idx[r]]) :
                   DocGet(store'[Len(store')], key) = companies[r][idx[r]][key]
         /\ (pc[r] = "loop" /\ res'[r].status = 200) =>
              \A i \in 1..Len(companies[r]) :
                Truthy(companies[r][i].email) =>
                  findOne(store', companies[r][i].email) # 0]_vars

\* C12 as amended: the inserted document carries the schema fields of the
\* incoming record, converted to strings, and nothing else.
C12_CreateModesInsertSchemaFields ==
  [][\A r \in Runs :
       (importMode[r] \in CreateModes /\ pc[r] \in Running /\ RunMoved(r)) =>
         /\ (/\ AtRecord(r)
             /\ Truthy(companies[r][idx[r]].email)
             /\ findOne(store, companies[r][idx[r]].email) = 0
             /\ ~failed'[r]) => pc'[r] = "create"
         /\ (pc[r] = "create" /\ ~failed'[r]) =>
              /\ Len(store') = Len(store) + 1
              /\ SubSeq(store', 1, Len(store)) = store
              /\ inserted'[r] = inserted[r] + 1
              /\ \A f \in SchemaFields :
                   store'[Len(store')][f] = CastString(companies[r][idx[r]][f])
         /\ (pc[r] = "loop" /\ res'[r].status = 200) =>
              \A i \in 1..Len(companies[r]) :
                Truthy(companies[r][i].email) =>
                  findOne(store', companies[r][i].email) # 0]_vars

\* Scenario A on a sheet: one row inserted under create_new, its numeric
\* phone stored as text, and the summary {inserted: 1} returned.
C12_Witness ==
  /\ pc[1] = "responded"
  /\ res[1] = Summary(1, 0, 0)
  /\ request[1] = [file |-> "ok", mode |-> "known"]
  /\ writes[1] = 1
  /\ Len(store) = 1
  /\ store[1].email = Str("a@x.com")
  /\ store[1].name = Str("A")
  /\ store[1].phone = Str("5551234")

\* C13: under create_new no step of a run changes a document that is in the
\* store: a record whose email matches one is skipped with no write, and
\* every field of every document there stays as it was.
C13_CreateNewLeavesExisting ==
  [][\A r \in Runs :
       (importMode[r] = "create_new" /\ pc[r] \in Running /\ RunMoved(r)) =>
         /\ Len(store') >= Len(store)
         /\ SubSeq(store', 1, Len(store)) = store
         /\ pc'[r] # "updateOne"
         /\ updated'[r] = 0
         /\ (/\ AtRecord(r)
             /\ Truthy(companies[r][idx[r]].email)
             /\ findOne(store, companies[r][idx[r]].email) # 0
             /\ ~failed'[r]) =>
              /\ skipped'[r] = skipped[r] + 1
              /\ idx'[r] = idx[r] + 1
              /\ pc'[r] = "loop"
              /\ writes'[r] = writes[r]]_vars

\* A row with name "A" met the document of its email, whose name is empty,
\* and was skipped; the name is still empty.
C13_Witness ==
  /\ importMode[1] = "create_new"
  /\ pc[1] = "loop"
  /\ idx[1] = 2
  /\ finds[1] = 1
  /\ skipped[1] = 1
  /\ writes[1] = 0
  /\ companies[1][1].email = Str("a@x.com")
  /\ companies[1][1].name = Str("A")
  /\ Len(store) = 1
  /\ store[1].email = Str("a@x.com")
  /\ store[1].name = Str("")
  /\ store[1].industry = Str("Tech")

\* The fields that are truthy in the incoming record and falsy on the
\* existing document.
FillSet(existing, company) ==
  {key \in Keys : Truthy(company[key]) /\ ~Truthy(DocGet(existing, key))}

\* C14: under a *_no_overwrite mode with a match, an empty fill set gives a
\* skip with no write; otherwise an update is issued and counted, the fields
\* it writes on the matched document are exactly the fill set, and every
\* other document stays as it was.
C14_MergeFillWritesFillSet ==
  [][\A r \in Runs :
       (importMode[r] \in NoOverwriteModes /\ pc[r] \in Running /\ RunMoved(r)) =>
         /\ (/\ AtRecord(r)
             /\ Truthy(companies[r][idx[r]].email)
             /\ findOne(store, companies[r][idx[r]].email) # 0
             /\ ~failed'[r]) =>
              LET company == companies[r][idx[r]]
                  fs == FillSet(store[findOne(store, company.email)], company)
              IN IF fs = {}
                   THEN /\ skipped'[r] = skipped[r] + 1
                        /\ idx'[r] = idx[r] + 1
                        /\ pc'[r] = "loop"
                        /\ writes'[r] = writes[r]
                   ELSE /\ pc'[r] = "updateOne"
                        /\ KeysOf(pending'[r].set) = fs
                        /\ \A key \in fs : pending'[r].set[key] = company[key]
         /\ (/\ pc[r] = "updateOne"
             /\ ~failed'[r]
             /\ findOne(store, companies[r][idx[r]].email) # 0) =>
              LET j == findOne(store, companies[r][idx[r]].email) IN
              /\ updated'[r] = updated[r] + 1
              /\ Len(store') = Len(store)
              /\ {key \in Keys : DocGet(store'[j], key) # DocGet(store[j], key)}
                   = KeysOf(pending[r].set)
              /\ \A i \in 1..Len(store) : i # j => store'[i] = store[i]]_vars

\* The truthy emails of a batch, as the store would hold them.
BatchEmails(rows) ==
  {CastString(rows[i].email) : i \in {k \in 1..Len(rows) : Truthy(rows[k].email)}}

\* C15: a run goes through its records one by one in order; a lookup is
\* issued only when no store call of the run is in flight, and a write is
\* for the record just looked up. So in a run on its own under a create
\* mode, a record whose email an earlier record of the batch carried finds a
\* match and is not inserted, and the run inserts each email at most once.
C15_SequentialProcessing ==
  [][\A r \in Runs :
       (pc[r] \in Running /\ RunMoved(r)) =>
         /\ idx'[r] \in {idx[r], idx[r] + 1}
         /\ (finds'[r] # finds[r]) =>
              /\ finds'[r] = finds[r] + 1
              /\ pc[r] = "loop"
              /\ pending[r] = NoPending
         /\ (pc'[r] \in {"create", "updateOne"}) =>
              /\ pc[r] = "loop"
              /\ idx'[r] = idx[r]
              /\ finds'[r] = finds[r] + 1
         /\ (pc[r] \in {"create", "updateOne"}) =>
              /\ writes'[r] = writes[r] + 1
              /\ pc'[r] \in {"loop", "responded"}
              /\ pc'[r] = "loop" => idx'[r] = idx[r] + 1
         /\ (/\ importMode[r] \in CreateModes
             /\ AtRecord(r)
             /\ Truthy(companies[r][idx[r]].email)
             /\ \E k \in 1..(idx[r] - 1) :
                  CastString(companies[r][k].email)
                    = CastString(companies[r][idx[r]].email)) =>
              /\ findOne(store, companies[r][idx[r]].email) # 0
              /\ pc'[r] # "create"
         /\ (/\ importMode[r] \in CreateModes
             /\ pc[r] = "loop"
             /\ res'[r].status = 200) =>
              /\ res'[r].counts[1] <= Cardinality(BatchEmails(companies[r]))
              /\ \A e \in BatchEmails(companies[r]) :
                   Cardinality(Matches(store', e)) = 1]_vars

\* A batch with a@x.com twice ran under create_new on an empty store: the
\* first row was inserted, the second found it and was skipped.
C15_Witness ==
  /\ importMode[1] = "create_new"
  /\ ~rerun[1]
  /\ pc[1] = "loop"
  /\ idx[1] = 3
  /\ companies[1][1].email = Str("a@x.com")
  /\ companies[1][2].email = Str("a@x.com")
  /\ finds[1] = 2
  /\ writes[1] = 1
  /\ inserted[1] = 1
  /\ skipped[1] = 1
  /\ Len(store) = 1

\* C16: the lookup and the insert of one record are two steps with nothing
\* held between them. A lookup that misses under a create mode leaves the
\* run with a create issued and the store not yet changed, whatever call the
\* other run has in flight; so both runs can stand between a missed lookup
\* and the insert of the same email (C16_Witness).
C16_LookupThenInsertNotAtomic ==
  [][\A r \in Runs :
       (/\ importMode[r] \in CreateModes
        /\ AtRecord(r)
        /\ Truthy(companies[r][idx[r]].email)
        /\ findOne(store, companies[r][idx[r]].email) = 0
        /\ RunMoved(r)
        /\ ~failed'[r]) =>
         /\ pc'[r] = "create"
         /\ pending'[r].op = "create"
         /\ store' = store
         /\ findOne(store', companies[r][idx[r]].email) = 0
         /\ \A q \in Runs \ {r} : pc'[q] = pc[q] /\ pending'[q] = pending[q]]_vars

\* Both runs looked a@x.com up, found nothing, and each has its create for
\* a@x.com in flight.
C16_Witness ==
  /\ store = <<>>
  /\ \A r \in Runs :
       /\ importMode[r] \in CreateModes
       /\ pc[r] = "create"
       /\ pending[r].op = "create"
       /\ finds[r] = 1
       /\ writes[r] = 0
       /\ companies[r][idx[r]].email = Str("a@x.com")

\* C17: every record a run gets through gives exactly one of inserted,
\* updated, skipped and at most one store write: inserted is counted exactly
\* by the step that performs a create, updated exactly by the step that
\* performs an updateOne, skipped exactly by a step without a write; and the
\* summary's inserted + updated is the number of writes the run performed.
C17_OutcomeMatchesMutation ==
  [][\A r \in Runs :
       (pc[r] \in Running /\ RunMoved(r) /\ ~failed'[r]) =>
         /\ (idx'[r] = idx[r] + 1) =>
              /\ inserted'[r] + updated'[r] + skipped'[r]
                   = inserted[r] + updated[r] + skipped[r] + 1
              /\ (inserted'[r] = inserted[r] + 1) <=> (pc[r] = "create")
              /\ (updated'[r] = updated[r] + 1) <=> (pc[r] = "updateOne")
              /\ (skipped'[r] = skipped[r] + 1) <=> (pc[r] = "loop")
         /\ (idx'[r] = idx[r]) =>
              /\ inserted'[r] = inserted[r]
              /\ updated'[r] = updated[r]
              /\ skipped'[r] = skipped[r]
         /\ writes'[r] = IF pc[r] \in {"create", "updateOne"}
                           THEN writes[r] + 1 ELSE writes[r]
         /\ (pc[r] \in {"create", "updateOne"}) => idx'[r] = idx[r] + 1
         /\ (pc[r] = "create") => Len(store') = Len(store) + 1
         /\ (pc[r] # "create") => Len(store') = Len(store)
         /\ (res'[r].status = 200) =>
              res'[r].counts[1] + res'[r].counts[2] = writes[r]]_vars

\* C18: a step that counts an update leaves the number of documents and the
\* email of every document as they were; the documents' emails change only
\* by the insert of an import run or by a delete request that finds its
\* document.
C18_UpdateKeepsIdentity ==
  [][/\ \A r \in Runs :
          (pc[r] = "updateOne" /\ RunMoved(r) /\ ~failed'[r]) =>
            /\ updated'[r] = updated[r] + 1
            /\ Len(store') = Len(store)
            /\ \A i \in 1..Len(store) : store'[i].email = store[i].email
     /\ ([i \in 1..Len(store') |-> store'[i].email]
           # [i \in 1..Len(store) |-> store[i].email]) =>
          \/ \E r \in Runs :
               /\ pc[r] = "create"
               /\ inserted'[r] = inserted[r] + 1
               /\ SubSeq(store', 1, Len(store)) = store
               /\ Len(store') = Len(store) + 1
          \/ /\ runVars' = runVars
             /\ delRes'.status = 200
             /\ \E i \in Matches(store, Str(delRes'.email)) :
                  store' = Without(store, i)]_vars

\* The document of a@x.com was overwritten under create_update_overwrite:
\* new name and industry, same email, and the other document still there.
C18_Witness ==
  /\ importMode[1] = "create_update_overwrite"
  /\ pc[1] = "loop"
  /\ idx[1] = 2
  /\ updated[1] = 1
  /\ inserted[1] = 0
  /\ Len(store) = 2
  /\ store[1].email = Str("0")
  /\ store[2].email = Str("a@x.com")
  /\ store[2].name = Str("A")
  /\ store[2].industry = Str("Retail")

\* C19: idempotence of merge-fill. The second of two successive runs of one
\* batch under create_update_no_overwrite or update_no_overwrite, nothing in
\* between, leaves the store as it is and counts no insert and no update.
C19_MergeFillIdempotent ==
  [][\A r \in Runs :
       (rerun[r] /\ importMode[r] \in NoOverwriteModes /\ pc[r] \in Running) =>
         /\ store' = store
         /\ inserted'[r] = 0
         /\ updated'[r] = 0
         /\ (res'[r].status = 200 =>
               /\ res'[r].counts[1] = 0
               /\ res'[r].counts[2] = 0)]_vars

\* C20: with the unique index on email, whatever the interleaving of two
\* import runs and deletes, a create for an email the store already holds is
\* rejected: the store is unchanged, nothing is counted, and the run ends
\* there with a 500 response; a create for an email the store does not hold
\* adds one document. So no step leads to two documents with one email.
C20_UniqueIndexUnderRaces ==
  [][/\ \A i, j \in 1..Len(store') :
          i # j => store'[i].email # store'[j].email
     /\ \A r \in Runs :
          (pc[r] = "create" /\ RunMoved(r)) =>
            IF Matches(store, CastString(companies[r][idx[r]].email)) # {}
              THEN /\ store' = store
                   /\ failed'[r]
                   /\ pc'[r] = "responded"
                   /\ res'[r].status = 500
                   /\ res'[r].counts = <<>>
                   /\ inserted'[r] = inserted[r]
                   /\ idx'[r] = idx[r]
              ELSE \/ /\ failed'[r]
                      /\ store' = store
                   \/ /\ ~failed'[r]
                      /\ store' = Append(store, NewDoc(companies[r][idx[r]]))
                      /\ inserted'[r] = inserted[r] + 1]_vars

\* Both runs looked a@x.com up and missed; the first create went through
\* and its run returned {inserted: 1}, the second was rejected by the index.
C20_Witness ==
  /\ Len(store) = 1
  /\ store[1].email = Str("a@x.com")
  /\ delRes = NoDelete
  /\ res[1] = Summary(1, 0, 0)
  /\ res[2] = Failure(500, "E11000 duplicate key")
  /\ finds[2] = 1
  /\ writes[2] = 1
  /\ inserted[2] = 0
  /\ failed[2]

====
